---- MODULE Spec2Model ----
(***************************************************************************)
(* gai 1.0.4 (src/main.go, lines 821-1560): the commit, stash and push     *)
(* actions of GitAI as a sequential state machine.  One invocation runs    *)
(* from Start to pc = "done"; the repository and the PR host keep their    *)
(* state from one invocation to the next.  Texts are sequences of          *)
(* one-character strings.                                                  *)
(***************************************************************************)
EXTENDS Integers, Sequences, FiniteSets, TLC

(* ------------------------------ bounds -------------------------------- *)

MaxInvocations == 2
MaxCommits == 1
MaxBranchLen == 4

(* ------------------------------- texts -------------------------------- *)

White == {" ", "\n", "\t", "\r"}

RECURSIVE TrimLeft(_)
TrimLeft(s) ==
    IF s = <<>> THEN s
    ELSE IF Head(s) \in White THEN TrimLeft(Tail(s)) ELSE s

RECURSIVE TrimRight(_)
TrimRight(s) ==
    IF s = <<>> THEN s
    ELSE IF s[Len(s)] \in White THEN TrimRight(SubSeq(s, 1, Len(s) - 1)) ELSE s

TrimSpace(s) == TrimRight(TrimLeft(s))

RECURSIVE FirstLine(_)
FirstLine(s) ==
    IF s = <<>> THEN <<>>
    ELSE IF Head(s) = "\n" THEN <<>> ELSE <<Head(s)>> \o FirstLine(Tail(s))

HasPrefix(s, p) == Len(s) >= Len(p) /\ SubSeq(s, 1, Len(p)) = p

TrimPrefix(s, p) == IF HasPrefix(s, p) THEN SubSeq(s, Len(p) + 1, Len(s)) ELSE s

RECURSIVE Join(_)
Join(lines) ==
    IF lines = <<>> THEN <<>>
    ELSE IF Len(lines) = 1 THEN Head(lines)
    ELSE Head(lines) \o <<"\n">> \o Join(Tail(lines))

Digits == <<"0", "1", "2", "3", "4", "5", "6", "7", "8", "9">>

RECURSIVE Itoa(_)
Itoa(n) == IF n < 10 THEN <<Digits[n + 1]>> ELSE Itoa(n \div 10) \o <<Digits[(n % 10) + 1]>>

Upper == {"A", "B", "C", "D", "E", "F", "G", "H", "I", "J", "K", "L", "M",
          "N", "O", "P", "Q", "R", "S", "T", "U", "V", "W", "X", "Y", "Z"}

Digit == {Digits[i] : i \in 1..10}

NoTicket == <<"N", "O", "-", "T", "I", "C", "K", "E", "T">>

NoTicketPrefix == <<"[">> \o NoTicket \o <<"]", " ">>

RECURSIVE RunEnd(_, _, _)
RunEnd(s, i, class) ==
    IF i <= Len(s) /\ s[i] \in class THEN RunEnd(s, i + 1, class) ELSE i

MatchEnd(s, i) ==
    LET j == RunEnd(s, i, Upper)
    IN  IF j > i /\ j + 1 <= Len(s) /\ s[j] = "-" /\ s[j + 1] \in Digit
        THEN RunEnd(s, j + 1, Digit)
        ELSE 0

FindStringLast(s) ==
    LET starts == {i \in 1..Len(s) : MatchEnd(s, i) > 0}
    IN  IF starts = {} THEN <<>>
        ELSE LET i == CHOOSE k \in starts : \A m \in starts : k >= m
             IN  SubSeq(s, i, MatchEnd(s, i) - 1)

FindString(s) ==
    LET starts == {i \in 1..Len(s) : MatchEnd(s, i) > 0}
    IN  IF starts = {} THEN <<>>
        ELSE LET i == CHOOSE k \in starts : \A m \in starts : k <= m
             IN  SubSeq(s, i, MatchEnd(s, i) - 1)

detectTicketNumber(b) ==
    LET match == FindString(b)
    IN  IF match # <<>> THEN match ELSE NoTicket

(* ------------------------ inputs of the model -------------------------- *)

\* raw output of `git diff`: nothing, or a diff ending in a newline
Diffs == {<<>>, <<"d", "\n">>}

\* combined output of a subprocess that exited non-zero
ErrOuts == {<<"!", "\n">>}

\* Message.Content of the first completion
AITexts == {<<"m">>, NoTicketPrefix \o <<"t", "\n", "x">>}

\* what the operator may write to the temporary file
EditTexts == {<<" ">>, <<"e">>}

Branches == {<<"f", "/", "A", "B", "-", "1", "2", "-", "x">>, <<"f", "/", "x">>}

\* subjects of the commits of origin/main..branch: none, or one commit
CommitLists == {<<>>, << <<"s">> >>}

\* numbers of the open PRs of the branch as `gh pr list` returns them, newest first
PRLists == {<<>>, <<7>>, <<17, 7>>}

\* the passthrough flags of an invocation: none, or two in a given order
ArgLists == {<<>>, <<"-v", "-q">>}

(* ------------------------------- state -------------------------------- *)

VARIABLES
    stagedDiff,    \* repository: raw output of git diff --cached
    unstagedDiff,  \* repository: raw output of git diff
    commits,       \* repository: subjects of the non-merge commits in origin/main..branch
    branch,        \* repository: name of the checked-out branch
    remoteHead,    \* remote: how many of `commits` origin/branch has
    prs,           \* PR host: numbers of the open PRs whose head is `branch`
    invocations,   \* how many invocations of gai have started
    action,        \* the subcommand of the running invocation
    extraArgs,     \* its passthrough flags
    pc,            \* position in the running invocation
    result,        \* "none" while running, then "ok" (nil error) or "err"
    loc,           \* local variables of the running invocation
    rvRet,         \* where editContentInEditor returns to
    tmp,           \* the temporary file of editContentInEditor
    cmds,          \* subprocesses run by this invocation, in order
    gens,          \* chat-completion requests of this invocation, in order
    reviews        \* editContentInEditor calls that returned, in order

env == <<stagedDiff, unstagedDiff, commits, branch, remoteHead, prs>>
inv == <<invocations, action, extraArgs>>
vars == <<stagedDiff, unstagedDiff, commits, branch, remoteHead, prs, invocations,
          action, extraArgs, pc, result, loc, rvRet, tmp, cmds, gens, reviews>>

NoFile == [exists |-> FALSE, content |-> <<>>, mtime |-> 0]

NoLocals ==
    [currentBranch |-> <<>>, prList |-> <<>>, prNumber |-> <<>>, commitMsgs |-> <<>>, diff |-> <<>>,
     ticketNumber |-> <<>>, initialContent |-> <<>>, aiOutput |-> <<>>,
     edited |-> <<>>, saved |-> FALSE, editedTitle |-> <<>>, mtimeBefore |-> 0]

Lit(w) == [lit |-> w, text |-> <<>>]
Txt(t) == [lit |-> "", text |-> t]
Lits(ws) == [i \in DOMAIN ws |-> Lit(ws[i])]

Ran(prog, argv, ok) == [prog |-> prog, argv |-> argv, ok |-> ok]

runCmd(out) == TrimSpace(out)

DiffArgv(staged) == IF staged THEN <<Lit("diff"), Lit("--cached")>> ELSE <<Lit("diff")>>

\* the (out, err) pairs GetDiff can return in the current repository state
GetDiff(staged) ==
    {[ok |-> TRUE, out |-> runCmd(IF staged THEN stagedDiff ELSE unstagedDiff)]}
        \cup {[ok |-> FALSE, out |-> runCmd(e)] : e \in ErrOuts}

LogArgv(cur) ==
    <<Lit("log"), Lit("origin/main.."), Txt(cur), Lit("--pretty=format:%s"), Lit("--no-merges")>>

GetCommitMessages ==
    {[ok |-> TRUE, out |-> runCmd(Join(commits))]}
        \cup {[ok |-> FALSE, out |-> runCmd(e)] : e \in ErrOuts}

GetCurrentBranch ==
    {[ok |-> TRUE, out |-> runCmd(branch \o <<"\n">>)]}
        \cup {[ok |-> FALSE, out |-> runCmd(e)] : e \in ErrOuts}

buildInputData(ticketNumber, branchName, prTitle, commitList, diff) ==
    [ticket |-> ticketNumber, branch |-> branchName, prTitle |-> prTitle,
     commits |-> commitList, diff |-> diff]

\* what CreateChatCompletion can answer: an error, no choices, or a first choice
Completions ==
    {[outcome |-> "error", out |-> <<>>], [outcome |-> "nochoices", out |-> <<>>]}
        \cup {[outcome |-> "ok", out |-> t] : t \in AITexts}

Gen(instr, input, c) == [instr |-> instr, input |-> input, outcome |-> c.outcome, out |-> c.out]

Done(res) == pc' = "done" /\ result' = res

Init ==
    /\ stagedDiff \in Diffs
    /\ unstagedDiff \in Diffs
    /\ commits \in CommitLists
    /\ branch \in Branches
    /\ remoteHead = 0
    /\ prs \in PRLists
    /\ invocations = 0
    /\ action = "none"
    /\ extraArgs = <<>>
    /\ pc = "idle"
    /\ result = "none"
    /\ loc = NoLocals
    /\ rvRet = "none"
    /\ tmp = NoFile
    /\ cmds = <<>>
    /\ gens = <<>>
    /\ reviews = <<>>

(* --------------------------- the subcommands --------------------------- *)

Entry(cmd) ==
    CASE cmd = "commit" -> "Commit_HasChanges"
      [] cmd = "stash" -> "gdm_generate"
      [] cmd = "push" -> "Push_branch"

\* commitCmd / stashCmd / pushCmd RunE: a new process, nothing kept but the
\* repository and the PR host
Start(cmd, args) ==
    /\ pc \in {"idle", "done"}
    /\ invocations < MaxInvocations
    /\ cmd = "commit" => Len(commits) < MaxCommits
    /\ invocations' = invocations + 1
    /\ action' = cmd
    /\ extraArgs' = args
    /\ pc' = Entry(cmd)
    /\ result' = "none"
    /\ loc' = NoLocals
    /\ rvRet' = "none"
    /\ tmp' = NoFile
    /\ cmds' = <<>>
    /\ gens' = <<>>
    /\ reviews' = <<>>
    /\ UNCHANGED env

(* ------------------------------- commit -------------------------------- *)

HasChangesInverted(stagedOut, unstagedOut) ==
    TrimSpace(stagedOut) = <<>> \/ TrimSpace(unstagedOut) = <<>>

HasChanges(stagedOut, unstagedOut) ==
    TrimSpace(stagedOut) # <<>> \/ TrimSpace(unstagedOut) # <<>>

\* Commit up to its first return or to stageChangesIfNeeded: gitOps.HasChanges
Commit_HasChangesUnchecked ==
    /\ pc = "Commit_HasChanges"
    /\ \E s \in GetDiff(TRUE), u \in GetDiff(FALSE) :
        /\ cmds' = cmds \o <<Ran("git", DiffArgv(TRUE), s.ok), Ran("git", DiffArgv(FALSE), u.ok)>>
        /\ IF ~HasChanges(s.out, u.out) THEN Done("ok")
           ELSE pc' = "Commit_stage" /\ result' = result
    /\ UNCHANGED <<env, inv, loc, rvRet, tmp, gens, reviews>>

Commit_HasChanges ==
    /\ pc = "Commit_HasChanges"
    /\ \E s \in GetDiff(TRUE) :
        IF ~s.ok
        THEN /\ cmds' = Append(cmds, Ran("git", DiffArgv(TRUE), FALSE))
             /\ Done("err")
        ELSE \E u \in GetDiff(FALSE) :
            /\ cmds' = cmds \o <<Ran("git", DiffArgv(TRUE), TRUE), Ran("git", DiffArgv(FALSE), u.ok)>>
            /\ IF ~u.ok THEN Done("err")
               ELSE IF ~HasChanges(s.out, u.out) THEN Done("ok")
               ELSE pc' = "Commit_stage" /\ result' = result
    /\ UNCHANGED <<env, inv, loc, rvRet, tmp, gens, reviews>>

\* what `git add .` leaves in the index and in the working tree
StageAll == IF TrimSpace(stagedDiff) = <<>> THEN unstagedDiff ELSE stagedDiff \o unstagedDiff

NeedsStaging(diff) == TrimSpace(diff) = <<>>

Commit_stage ==
    /\ pc = "Commit_stage"
    /\ \E d \in GetDiff(TRUE) :
        IF ~NeedsStaging(d.out)
        THEN /\ cmds' = Append(cmds, Ran("git", DiffArgv(TRUE), d.ok))
             /\ pc' = "gdm_generate"
             /\ UNCHANGED <<stagedDiff, unstagedDiff, result>>
        ELSE \E added \in BOOLEAN :
             /\ cmds' = cmds \o <<Ran("git", DiffArgv(TRUE), d.ok),
                                   Ran("git", <<Lit("add"), Lit(".")>>, added)>>
             /\ IF added
                THEN /\ stagedDiff' = StageAll
                     /\ unstagedDiff' = <<>>
                     /\ pc' = "gdm_generate"
                     /\ result' = result
                ELSE /\ Done("err")
                     /\ UNCHANGED <<stagedDiff, unstagedDiff>>
    /\ UNCHANGED <<commits, branch, remoteHead, prs, inv, loc, rvRet, tmp, gens, reviews>>

\* generateDiffBasedMessage(staged) up to the editor: Commit passes true, Stash false
DiffIsStaged(cmd) == cmd = "commit"

AfterMessageSwapped(cmd) == IF cmd = "commit" THEN "Stash_afterMessage" ELSE "Commit_afterMessage"

AfterMessage(cmd) == IF cmd = "commit" THEN "Commit_afterMessage" ELSE "Stash_afterMessage"

gdm_generate ==
    /\ pc = "gdm_generate"
    /\ \E d \in GetDiff(DiffIsStaged(action)), c \in Completions :
        /\ cmds' = Append(cmds, Ran("git", DiffArgv(DiffIsStaged(action)), d.ok))
        /\ gens' = Append(gens, Gen("commit", buildInputData(<<>>, <<>>, <<>>, <<>>, d.out), c))
        /\ IF c.outcome # "ok"
           THEN /\ loc' = [loc EXCEPT !.diff = d.out, !.edited = <<>>, !.saved = FALSE]
                /\ pc' = AfterMessage(action)
                /\ rvRet' = rvRet
           ELSE /\ loc' = [loc EXCEPT !.diff = d.out, !.aiOutput = c.out, !.initialContent = c.out]
                /\ pc' = "edit_create"
                /\ rvRet' = AfterMessage(action)
    /\ UNCHANGED <<env, inv, result, tmp, reviews>>

CommitProceedsAlways(ok) == TRUE

CommitProceeds(ok) == ok

Commit_afterMessage ==
    /\ pc = "Commit_afterMessage"
    /\ IF CommitProceeds(loc.saved)
       THEN pc' = "Commit_exec" /\ result' = result
       ELSE Done("ok")
    /\ UNCHANGED <<env, inv, loc, rvRet, tmp, cmds, gens, reviews>>

CommitArgvRaw(commitMessage, flags) ==
    <<Lit("commit")>> \o Lits(flags) \o <<Lit("-m"), Txt(loc.aiOutput)>>

CommitArgv(commitMessage, flags) == <<Lit("commit")>> \o Lits(flags) \o <<Lit("-m"), Txt(commitMessage)>>

\* gitOps.Commit(finalMessage, extraArgs)
Commit_exec ==
    /\ pc = "Commit_exec"
    /\ \E ok \in BOOLEAN :
        /\ cmds' = Append(cmds, Ran("git", CommitArgv(loc.edited, extraArgs), ok))
        /\ IF ok
           THEN /\ stagedDiff' = <<>>
                /\ commits' = Append(commits, TrimSpace(FirstLine(loc.edited)))
                /\ Done("ok")
           ELSE /\ UNCHANGED <<stagedDiff, commits>>
                /\ Done("err")
    /\ UNCHANGED <<unstagedDiff, branch, remoteHead, prs, inv, loc, rvRet, tmp, gens, reviews>>

(* -------------------------------- stash -------------------------------- *)

StashProceedsAlways(ok) == TRUE

StashProceeds(ok) == ok

Stash_afterMessage ==
    /\ pc = "Stash_afterMessage"
    /\ IF StashProceeds(loc.saved)
       THEN pc' = "Stash_exec" /\ result' = result
       ELSE Done("ok")
    /\ UNCHANGED <<env, inv, loc, rvRet, tmp, cmds, gens, reviews>>

StashArgvFlagsFirst(message, flags) ==
    <<Lit("stash"), Lit("push")>> \o Lits(flags) \o <<Lit("-m"), Txt(message)>>

StashArgv(message, flags) ==
    <<Lit("stash"), Lit("push"), Lit("-m"), Txt(message)>> \o Lits(flags)

Stash_exec ==
    /\ pc = "Stash_exec"
    /\ \E ok \in BOOLEAN :
        /\ cmds' = Append(cmds, Ran("git", StashArgv(loc.edited, extraArgs), ok))
        /\ IF ok
           THEN /\ stagedDiff' = <<>>
                /\ unstagedDiff' = <<>>
                /\ Done("ok")
           ELSE /\ UNCHANGED <<stagedDiff, unstagedDiff>>
                /\ Done("err")
    /\ UNCHANGED <<commits, branch, remoteHead, prs, inv, loc, rvRet, tmp, gens, reviews>>

(* ------------------------- editContentInEditor ------------------------- *)

\* one returned call: what it was given, what it returned, and the
\* temporary file's modification time when the editor started and ended
Review(final, approved, reached) ==
    [initial |-> loc.initialContent, final |-> final, approved |-> approved,
     reached |-> reached, written |-> tmp.content,
     mtimeBefore |-> loc.mtimeBefore, mtimeAfter |-> tmp.mtime]

\* return (final, approved); the deferred os.Remove runs
ReturnKeepingFile(final, approved, reached) ==
    /\ loc' = [loc EXCEPT !.edited = final, !.saved = approved]
    /\ reviews' = Append(reviews, Review(final, approved, reached))
    /\ tmp' = tmp
    /\ pc' = rvRet
    /\ rvRet' = "none"

Return(final, approved, reached) ==
    /\ loc' = [loc EXCEPT !.edited = final, !.saved = approved]
    /\ reviews' = Append(reviews, Review(final, approved, reached))
    /\ tmp' = NoFile
    /\ pc' = rvRet
    /\ rvRet' = "none"

\* ioutil.TempFile
edit_create ==
    /\ pc = "edit_create"
    /\ \/ /\ tmp' = [exists |-> TRUE, content |-> <<>>, mtime |-> 0]
          /\ pc' = "edit_write"
          /\ UNCHANGED <<loc, rvRet, reviews>>
       \/ /\ loc' = [loc EXCEPT !.edited = <<>>, !.saved = FALSE]
          /\ reviews' = Append(reviews, Review(<<>>, FALSE, "create"))
          /\ pc' = rvRet
          /\ rvRet' = "none"
          /\ tmp' = tmp
    /\ UNCHANGED <<env, inv, result, cmds, gens>>

\* tmpFile.WriteString(initialContent); tmpFile.Close()
edit_write ==
    /\ pc = "edit_write"
    /\ \/ /\ tmp' = [tmp EXCEPT !.content = loc.initialContent]
          /\ loc' = [loc EXCEPT !.mtimeBefore = tmp.mtime]
          /\ pc' = "edit_run"
          /\ UNCHANGED <<rvRet, reviews>>
       \/ Return(<<>>, FALSE, "write")
    /\ UNCHANGED <<env, inv, result, cmds, gens>>

\* exec.Command(editor, tmpFile.Name()).Run(): the operator quits without
\* writing, writes the buffer unchanged, or writes another text; or the
\* editor fails to start or exits non-zero
edit_run ==
    /\ pc = "edit_run"
    /\ \/ /\ pc' = "edit_read"
          /\ \/ tmp' = tmp
             \/ \E t \in EditTexts \cup {tmp.content} :
                   tmp' = [tmp EXCEPT !.content = t, !.mtime = tmp.mtime + 1]
          /\ UNCHANGED <<loc, rvRet, reviews>>
       \/ Return(<<>>, FALSE, "editor")
    /\ UNCHANGED <<env, inv, result, cmds, gens>>

ApprovedInverted(finalContent) == TrimSpace(finalContent) = <<>>

Approved(finalContent) == TrimSpace(finalContent) # <<>>

ReadFile(file) == file.content

\* ioutil.ReadFile and the checks on what was read
edit_read ==
    /\ pc = "edit_read"
    /\ \/ Return(ReadFile(tmp), Approved(ReadFile(tmp)), "read")
       \/ Return(<<>>, FALSE, "readfail")
    /\ UNCHANGED <<env, inv, result, cmds, gens>>

(* --------------------------------- push -------------------------------- *)

\* gitOps.GetCurrentBranch at the top of Push
Push_branch ==
    /\ pc = "Push_branch"
    /\ \E b \in GetCurrentBranch :
        /\ cmds' = Append(cmds, Ran("git", <<Lit("rev-parse"), Lit("--abbrev-ref"), Lit("HEAD")>>, b.ok))
        /\ IF b.ok
           THEN /\ loc' = [loc EXCEPT !.currentBranch = b.out]
                /\ pc' = "Push_hasCommits"
                /\ result' = result
           ELSE /\ Done("err")
                /\ loc' = loc
    /\ UNCHANGED <<env, inv, rvRet, tmp, gens, reviews>>

HasCommitsToPushAlways(commitMsgs) == TRUE

HasCommitsToPush(commitMsgs) == TrimSpace(commitMsgs) # <<>>

Push_hasCommits ==
    /\ pc = "Push_hasCommits"
    /\ \E m \in GetCommitMessages :
        /\ cmds' = Append(cmds, Ran("git", LogArgv(loc.currentBranch), m.ok))
        /\ IF ~m.ok THEN Done("err")
           ELSE IF ~HasCommitsToPush(m.out) THEN Done("ok")
           ELSE pc' = "Push_fetch" /\ result' = result
    /\ UNCHANGED <<env, inv, loc, rvRet, tmp, gens, reviews>>

\* pushChanges: gitOps.Fetch("origin", MAIN_BRANCH)
Push_fetchUnchecked ==
    /\ pc = "Push_fetch"
    /\ \E ok \in BOOLEAN :
        cmds' = Append(cmds, Ran("git", <<Lit("fetch"), Lit("origin"), Lit("main")>>, ok))
    /\ pc' = "Push_branch2"
    /\ UNCHANGED <<env, inv, result, loc, rvRet, tmp, gens, reviews>>

Push_fetch ==
    /\ pc = "Push_fetch"
    /\ \E ok \in BOOLEAN :
        /\ cmds' = Append(cmds, Ran("git", <<Lit("fetch"), Lit("origin"), Lit("main")>>, ok))
        /\ IF ok THEN pc' = "Push_branch2" /\ result' = result ELSE Done("err")
    /\ UNCHANGED <<env, inv, loc, rvRet, tmp, gens, reviews>>

\* pushChanges: gitOps.GetCurrentBranch again
Push_branch2 ==
    /\ pc = "Push_branch2"
    /\ \E b \in GetCurrentBranch :
        /\ cmds' = Append(cmds, Ran("git", <<Lit("rev-parse"), Lit("--abbrev-ref"), Lit("HEAD")>>, b.ok))
        /\ IF b.ok
           THEN /\ loc' = [loc EXCEPT !.currentBranch = b.out]
                /\ pc' = "Push_push"
                /\ result' = result
           ELSE /\ Done("err")
                /\ loc' = loc
    /\ UNCHANGED <<env, inv, rvRet, tmp, gens, reviews>>

PushArgv(currentBranch, remote, flags) ==
    <<Lit("push"), Lit(remote), Txt(currentBranch)>> \o Lits(flags)

\* pushChanges: gitOps.Push(currentBranch, "origin", extraArgs)
Push_pushUnchecked ==
    /\ pc = "Push_push"
    /\ \E ok \in BOOLEAN :
        /\ cmds' = Append(cmds, Ran("git", PushArgv(loc.currentBranch, "origin", extraArgs), ok))
        /\ remoteHead' = IF ok THEN Len(commits) ELSE remoteHead
    /\ pc' = "Push_lookup"
    /\ UNCHANGED <<stagedDiff, unstagedDiff, commits, branch, prs, inv, result, loc, rvRet, tmp,
                   gens, reviews>>

Push_push ==
    /\ pc = "Push_push"
    /\ \E ok \in BOOLEAN :
        /\ cmds' = Append(cmds, Ran("git", PushArgv(loc.currentBranch, "origin", extraArgs), ok))
        /\ IF ok
           THEN /\ remoteHead' = Len(commits)
                /\ pc' = "Push_lookup"
                /\ result' = result
           ELSE /\ remoteHead' = remoteHead
                /\ Done("err")
    /\ UNCHANGED <<stagedDiff, unstagedDiff, commits, branch, prs, inv, loc, rvRet, tmp, gens, reviews>>

ListArgv(b) ==
    <<Lit("pr"), Lit("list"), Lit("--head"), Txt(b), Lit("--json"), Lit("number")>>

\* what `gh pr list --head branch --json number` can give: a non-zero exit,
\* output that is not a JSON list, or the list of the open PRs' numbers
PRListings ==
    {[outcome |-> "failed", list |-> <<>>], [outcome |-> "badjson", list |-> <<>>],
     [outcome |-> "ok", list |-> prs]}

\* the (number, err) pair of getExistingPRNumber for one listing
FirstNumberOffByOne(prList) == IF Len(prList) > 1 THEN Itoa(prList[1]) ELSE <<>>

FirstNumber(prList) == IF Len(prList) > 0 THEN Itoa(prList[1]) ELSE <<>>

getExistingPRNumberLast(l) ==
    IF l.outcome # "ok"
    THEN [number |-> <<>>, ok |-> FALSE]
    ELSE [number |-> IF l.list = <<>> THEN <<>> ELSE Itoa(l.list[Len(l.list)]), ok |-> TRUE]

getExistingPRNumber(l) ==
    IF l.outcome # "ok"
    THEN [number |-> <<>>, ok |-> FALSE]
    ELSE [number |-> FirstNumber(l.list), ok |-> TRUE]

Push_lookup ==
    /\ pc = "Push_lookup"
    /\ \E l \in PRListings :
        /\ cmds' = Append(cmds, Ran("gh", ListArgv(loc.currentBranch), l.outcome # "failed"))
        /\ IF getExistingPRNumber(l).ok
           THEN /\ loc' = [loc EXCEPT !.prList = l.list,
                                      !.prNumber = getExistingPRNumber(l).number]
                /\ pc' = "Push_collect"
                /\ result' = result
           ELSE /\ Done("err")
                /\ loc' = loc
    /\ UNCHANGED <<env, inv, rvRet, tmp, gens, reviews>>

PRExistsInverted(prNumber) == prNumber = <<>>

PRExists(prNumber) == prNumber # <<>>

\* Push: commit subjects, unstaged diff, ticket; then the choice of path
Push_collect ==
    /\ pc = "Push_collect"
    /\ \E m \in GetCommitMessages, d \in GetDiff(FALSE) :
        /\ cmds' = cmds \o <<Ran("git", LogArgv(loc.currentBranch), m.ok),
                              Ran("git", DiffArgv(FALSE), d.ok)>>
        /\ loc' = [loc EXCEPT !.commitMsgs = m.out, !.diff = d.out,
                              !.ticketNumber = detectTicketNumber(loc.currentBranch)]
    /\ pc' = IF PRExists(loc.prNumber) THEN "Update_generate" ELSE "New_title"
    /\ UNCHANGED <<env, inv, result, rvRet, tmp, gens, reviews>>

(* ----------------------------- updatePRBody ---------------------------- *)

Update_generateRetrying ==
    /\ pc = "Update_generate"
    /\ \E c \in Completions :
        /\ gens' = Append(gens, Gen("body",
               buildInputData(loc.ticketNumber, loc.currentBranch, <<>>, loc.commitMsgs, loc.diff), c))
        /\ IF c.outcome # "ok"
           THEN /\ IF gens = <<>> THEN pc' = pc /\ result' = result ELSE Done("err")
                /\ UNCHANGED <<loc, rvRet>>
           ELSE /\ loc' = [loc EXCEPT !.aiOutput = c.out, !.initialContent = c.out]
                /\ pc' = "edit_create"
                /\ rvRet' = "Update_afterBody"
                /\ result' = result
    /\ UNCHANGED <<env, inv, tmp, cmds, reviews>>

Update_generate ==
    /\ pc = "Update_generate"
    /\ \E c \in Completions :
        /\ gens' = Append(gens, Gen("body",
               buildInputData(loc.ticketNumber, loc.currentBranch, <<>>, loc.commitMsgs, loc.diff), c))
        /\ IF c.outcome # "ok"
           THEN /\ Done("err")
                /\ UNCHANGED <<loc, rvRet>>
           ELSE /\ loc' = [loc EXCEPT !.aiOutput = c.out, !.initialContent = c.out]
                /\ pc' = "edit_create"
                /\ rvRet' = "Update_afterBody"
                /\ result' = result
    /\ UNCHANGED <<env, inv, tmp, cmds, reviews>>

UpdateProceedsNever(savedBody) == FALSE

UpdateProceeds(savedBody) == savedBody

\* `if !savedBody { return fmt.Errorf("PR update canceled") }`, which Push returns
UpdateCancelResult == "err"

Update_afterBody ==
    /\ pc = "Update_afterBody"
    /\ IF UpdateProceeds(loc.saved)
       THEN pc' = "Update_edit" /\ result' = result
       ELSE Done(UpdateCancelResult)
    /\ UNCHANGED <<env, inv, loc, rvRet, tmp, cmds, gens, reviews>>

EditArgvWithTitle(prNumber, editedBody) ==
    <<Lit("pr"), Lit("edit"), Txt(prNumber), Lit("--title"), Txt(FirstLine(editedBody)),
      Lit("--body"), Txt(editedBody)>>

EditArgv(prNumber, editedBody) ==
    <<Lit("pr"), Lit("edit"), Txt(prNumber), Lit("--body"), Txt(editedBody)>>

Update_edit ==
    /\ pc = "Update_edit"
    /\ \E ok \in BOOLEAN :
        /\ cmds' = Append(cmds, Ran("gh", EditArgv(loc.prNumber, loc.edited), ok))
        /\ IF ok THEN pc' = "Push_view" /\ result' = result ELSE Done("err")
    /\ UNCHANGED <<env, inv, loc, rvRet, tmp, gens, reviews>>

(* ------------------------------ createNewPR ---------------------------- *)

TitleLineAlwaysStrips(prTitleAI, ticketNumber) ==
    TrimPrefix(FirstLine(prTitleAI), NoTicketPrefix)

TitleLine(prTitleAI, ticketNumber) ==
    LET firstLine == FirstLine(prTitleAI)
    IN  IF ticketNumber = NoTicket THEN TrimPrefix(firstLine, NoTicketPrefix) ELSE firstLine

New_titleContinues ==
    /\ pc = "New_title"
    /\ \E c \in Completions :
        /\ gens' = Append(gens, Gen("title",
               buildInputData(loc.ticketNumber, loc.currentBranch, <<>>, loc.commitMsgs, loc.diff), c))
        /\ IF c.outcome # "ok"
           THEN /\ pc' = "New_body"
                /\ UNCHANGED <<loc, rvRet>>
           ELSE /\ loc' = [loc EXCEPT !.aiOutput = c.out,
                                      !.initialContent = TitleLine(c.out, loc.ticketNumber)]
                /\ pc' = "edit_create"
                /\ rvRet' = "New_afterTitle"
    /\ UNCHANGED <<env, inv, result, tmp, cmds, reviews>>

New_title ==
    /\ pc = "New_title"
    /\ \E c \in Completions :
        /\ gens' = Append(gens, Gen("title",
               buildInputData(loc.ticketNumber, loc.currentBranch, <<>>, loc.commitMsgs, loc.diff), c))
        /\ IF c.outcome # "ok"
           THEN /\ pc' = "Push_relookup"
                /\ UNCHANGED <<loc, rvRet>>
           ELSE /\ loc' = [loc EXCEPT !.aiOutput = c.out,
                                      !.initialContent = TitleLine(c.out, loc.ticketNumber)]
                /\ pc' = "edit_create"
                /\ rvRet' = "New_afterTitle"
    /\ UNCHANGED <<env, inv, result, tmp, cmds, reviews>>

TitleProceedsAlways(savedTitle) == TRUE

TitleProceeds(savedTitle) == savedTitle

New_afterTitle ==
    /\ pc = "New_afterTitle"
    /\ IF TitleProceeds(loc.saved)
       THEN /\ loc' = [loc EXCEPT !.editedTitle = loc.edited]
            /\ pc' = "New_body"
       ELSE /\ pc' = "Push_relookup"
            /\ loc' = loc
    /\ UNCHANGED <<env, inv, result, rvRet, tmp, cmds, gens, reviews>>

New_body ==
    /\ pc = "New_body"
    /\ \E c \in Completions :
        /\ gens' = Append(gens, Gen("body",
               buildInputData(loc.ticketNumber, loc.currentBranch, loc.editedTitle,
                              loc.commitMsgs, loc.diff), c))
        /\ IF c.outcome # "ok"
           THEN /\ pc' = "Push_relookup"
                /\ UNCHANGED <<loc, rvRet>>
           ELSE /\ loc' = [loc EXCEPT !.aiOutput = c.out, !.initialContent = c.out]
                /\ pc' = "edit_create"
                /\ rvRet' = "New_afterBody"
    /\ UNCHANGED <<env, inv, result, tmp, cmds, reviews>>

BodyProceedsAlways(savedBody) == TRUE

BodyProceeds(savedBody) == savedBody

New_afterBody ==
    /\ pc = "New_afterBody"
    /\ pc' = IF BodyProceeds(loc.saved) THEN "New_create" ELSE "Push_relookup"
    /\ UNCHANGED <<env, inv, result, loc, rvRet, tmp, cmds, gens, reviews>>

CreateArgv(editedTitle, editedBody) ==
    <<Lit("pr"), Lit("create"), Lit("--draft"), Lit("--title"), Txt(editedTitle),
      Lit("--body"), Txt(editedBody)>>

\* the number the PR host gives the next PR
NextNumber == IF prs = <<>> THEN 1 ELSE 1 + prs[1]

New_create ==
    /\ pc = "New_create"
    /\ \E ok \in BOOLEAN :
        /\ cmds' = Append(cmds, Ran("gh", CreateArgv(loc.editedTitle, loc.edited), ok))
        /\ prs' = IF ok THEN <<NextNumber>> \o prs ELSE prs
    /\ pc' = "Push_relookup"
    /\ UNCHANGED <<stagedDiff, unstagedDiff, commits, branch, remoteHead, inv, result, loc,
                   rvRet, tmp, gens, reviews>>

\* Push after createNewPR: prNumber, _ = g.getExistingPRNumber(currentBranch)
Push_relookup ==
    /\ pc = "Push_relookup"
    /\ \E l \in PRListings :
        /\ cmds' = Append(cmds, Ran("gh", ListArgv(loc.currentBranch), l.outcome # "failed"))
        /\ loc' = [loc EXCEPT !.prNumber = getExistingPRNumber(l).number]
    /\ pc' = "Push_view"
    /\ UNCHANGED <<env, inv, result, rvRet, tmp, gens, reviews>>

\* openPRInBrowser(prNumber); return nil
Push_viewAlways ==
    /\ pc = "Push_view"
    /\ \E ok \in BOOLEAN :
        cmds' = Append(cmds, Ran("gh", <<Lit("pr"), Lit("view"), Txt(loc.prNumber), Lit("--web")>>, ok))
    /\ Done("ok")
    /\ UNCHANGED <<env, inv, loc, rvRet, tmp, gens, reviews>>

Push_view ==
    /\ pc = "Push_view"
    /\ IF loc.prNumber = <<>>
       THEN cmds' = cmds
       ELSE \E ok \in BOOLEAN :
               cmds' = Append(cmds, Ran("gh", <<Lit("pr"), Lit("view"), Txt(loc.prNumber), Lit("--web")>>, ok))
    /\ Done("ok")
    /\ UNCHANGED <<env, inv, loc, rvRet, tmp, gens, reviews>>

(* --------------------------- the specification ------------------------- *)

Next ==
    \/ \E cmd \in {"commit", "stash", "push"}, args \in ArgLists : Start(cmd, args)
    \/ Commit_HasChanges
    \/ Commit_stage
    \/ gdm_generate
    \/ Commit_afterMessage
    \/ Commit_exec
    \/ Stash_afterMessage
    \/ Stash_exec
    \/ edit_create
    \/ edit_write
    \/ edit_run
    \/ edit_read
    \/ Push_branch
    \/ Push_hasCommits
    \/ Push_fetch
    \/ Push_branch2
    \/ Push_push
    \/ Push_lookup
    \/ Push_collect
    \/ Update_generate
    \/ Update_afterBody
    \/ Update_edit
    \/ New_title
    \/ New_afterTitle
    \/ New_body
    \/ New_afterBody
    \/ New_create
    \/ Push_relookup
    \/ Push_view

Spec == Init /\ [][Next]_vars

(* ------------------------------ properties ----------------------------- *)

IsCommit(c) == c.prog = "git" /\ c.argv[1] = Lit("commit")
IsStash(c) == c.prog = "git" /\ c.argv[1] = Lit("stash")
IsAdd(c) == c.prog = "git" /\ c.argv[1] = Lit("add")
IsDiff(c) == c.prog = "git" /\ c.argv[1] = Lit("diff")
IsUnstage(c) == c.prog = "git" /\ c.argv[1] \in {Lit("reset"), Lit("restore"), Lit("rm")}
IsCreate(c) == c.prog = "gh" /\ c.argv[2] = Lit("create")
IsEdit(c) == c.prog = "gh" /\ c.argv[2] = Lit("edit")
IsList(c) == c.prog = "gh" /\ c.argv[2] = Lit("list")

\* the subprocesses that apply generated text
IsTextMutation(c) == IsCommit(c) \/ IsStash(c) \/ IsCreate(c) \/ IsEdit(c)

\* the value that follows the option `opt` in an argument vector
Carried(c, opt) == {c.argv[i].text : i \in {k \in 2..Len(c.argv) : c.argv[k - 1] = Lit(opt)}}

CarriedTexts(c) == Carried(c, "-m") \cup Carried(c, "--title") \cup Carried(c, "--body")

Ranges(q) == {q[i] : i \in DOMAIN q}

Rejected == \E r \in Ranges(reviews) : ~r.approved

\* C1: a subprocess that applies generated text (git commit -m, git stash
\* push -m, gh pr create --title/--body, gh pr edit --body) is run only when
\* a review of this invocation has already returned that very text with
\* approved = true.
C1_ApprovedBeforeMutation ==
    \A c \in Ranges(cmds) :
        IsTextMutation(c) =>
            \A t \in CarriedTexts(c) :
                \E r \in Ranges(reviews) : r.final = t /\ r.approved

C1_Witness ==
    /\ pc = "done"
    /\ \E c \in Ranges(cmds) : IsStash(c) /\ c.ok
    /\ \E r \in Ranges(reviews) : r.approved /\ r.final # r.initial

\* C2: the text given to the mutating subprocess is the final text the
\* review returned: the one review of commit, stash and PR update, the title
\* review and the body review of PR create.
C2_AppliedTextIsReviewed ==
    \A c \in Ranges(cmds) :
        /\ IsCommit(c) => Len(reviews) = 1 /\ Carried(c, "-m") = {reviews[1].final}
        /\ IsStash(c) => Len(reviews) = 1 /\ Carried(c, "-m") = {reviews[1].final}
        /\ IsEdit(c) => Len(reviews) = 1 /\ Carried(c, "--body") = {reviews[1].final}
        /\ IsCreate(c) => /\ Len(reviews) = 2
                          /\ Carried(c, "--title") = {reviews[1].final}
                          /\ Carried(c, "--body") = {reviews[2].final}

C2_Witness ==
    \E c \in Ranges(cmds) : IsCommit(c) /\ loc.aiOutput \notin Carried(c, "-m")

\* C3: a review returns approved = false whenever the temporary file's
\* modification time after the editor equals the one before it, and
\* whenever the trimmed final content is empty.
C3_UnsavedIsRejected ==
    \A r \in Ranges(reviews) :
        (r.mtimeAfter = r.mtimeBefore \/ TrimSpace(r.final) = <<>>) => ~r.approved

\* C4: when the temporary file was created and written, the editor exited
\* successfully, the file was read back, its modification time differs from
\* the one before the editor and its trimmed content is not empty, the
\* review returns approved = true and the content of the file.
C4_SavedChangeIsApproved ==
    \A r \in Ranges(reviews) :
        (r.reached = "read" /\ r.mtimeAfter # r.mtimeBefore /\ TrimSpace(r.written) # <<>>)
            => r.approved /\ r.final = r.written

C4_Witness ==
    \E r \in Ranges(reviews) :
        /\ r.reached = "read" /\ r.mtimeAfter # r.mtimeBefore
        /\ r.approved /\ r.final # r.initial

\* C5: in commit, stash and push (PR create and PR update), when a review
\* returned approved = false the invocation ends with a nil error and has
\* run no subprocess that applies generated text.
C5_RejectionEndsInSuccess ==
    (pc = "done" /\ Rejected) =>
        result = "ok" /\ \A c \in Ranges(cmds) : ~IsTextMutation(c)

\* C6: in commit, once the review of the commit message is rejected, no
\* git commit runs in that invocation, no unstage or reset is issued, and
\* the index and the working tree stay as the staging step left them.
C6_RejectedCommitKeepsIndex ==
    [][(action = "commit" /\ Rejected) =>
          /\ stagedDiff' = stagedDiff
          /\ unstagedDiff' = unstagedDiff
          /\ \A c \in Ranges(cmds') : ~IsCommit(c) /\ ~IsUnstage(c)]_vars

C6_Witness ==
    /\ action = "commit" /\ pc = "done" /\ Rejected
    /\ \E c \in Ranges(cmds) : IsAdd(c) /\ c.ok
    /\ TrimSpace(stagedDiff) # <<>>

\* C7: when commit starts in a repository whose staged and unstaged diffs
\* are both empty after trimming, its one step ends the invocation: only
\* the two diff reads have run (no git add, no git commit), no generation
\* was requested, no editor was opened, the repository is unchanged, and
\* the result is success when both reads succeeded.
C7_NothingToCommit ==
    [][(pc = "Commit_HasChanges" /\ TrimSpace(stagedDiff) = <<>> /\ TrimSpace(unstagedDiff) = <<>>) =>
          /\ pc' = "done"
          /\ \A c \in Ranges(cmds') : IsDiff(c)
          /\ gens' = <<>> /\ reviews' = <<>> /\ tmp' = NoFile
          /\ stagedDiff' = stagedDiff /\ unstagedDiff' = unstagedDiff
          /\ (\A c \in Ranges(cmds') : c.ok) => result' = "ok"]_vars

C7_Witness ==
    /\ action = "commit" /\ pc = "done" /\ result = "ok"
    /\ stagedDiff = <<>> /\ unstagedDiff = <<>>
    /\ Len(cmds) = 2 /\ (\A c \in Ranges(cmds) : c.ok) /\ gens = <<>>

IsBranchOrLog(c) == c.prog = "git" /\ c.argv[1] \in {Lit("rev-parse"), Lit("log")}

\* C8: a push on a branch with no non-merge commit ahead of origin/main
\* runs nothing but the branch and commit-subject reads (no fetch, no git
\* push, no PR lookup), requests no generation, opens no editor, and ends
\* with success when both reads succeeded.
C8_NothingToPush ==
    (action = "push" /\ commits = <<>>) =>
        /\ pc \in {"Push_branch", "Push_hasCommits", "done"}
        /\ \A c \in Ranges(cmds) : IsBranchOrLog(c)
        /\ gens = <<>> /\ reviews = <<>> /\ tmp = NoFile
        /\ (pc = "done" /\ \A c \in Ranges(cmds) : c.ok) => result = "ok"

C8_Witness ==
    /\ action = "push" /\ commits = <<>> /\ pc = "done" /\ result = "ok"
    /\ Len(cmds) = 2

\* C9: in push, after the first PR lookup succeeded: if it listed at least
\* one PR, gh pr create is never run; if it listed none, gh pr edit is never
\* run.
C9_PathFollowsLookup ==
    (action = "push" /\ \E c \in Ranges(cmds) : IsList(c)) =>
        /\ Len(loc.prList) >= 1 => \A c \in Ranges(cmds) : ~IsCreate(c)
        /\ Len(loc.prList) = 0 => \A c \in Ranges(cmds) : ~IsEdit(c)

C9_Witness ==
    /\ action = "push" /\ pc = "done"
    /\ Len(loc.prList) >= 1
    /\ \E c \in Ranges(cmds) : IsEdit(c) /\ c.ok

\* C10: over successive push invocations on the branch, the PR host's list
\* of the branch's PRs changes only by one gh pr create on a branch that has
\* no PR: a branch that has a PR never gets a second one.
C10_AtMostOnePRCreated ==
    [][prs' # prs => (prs = <<>> /\ Len(prs') = 1)]_vars

C10_Witness ==
    /\ invocations = 2 /\ prs = <<1>> /\ pc = "done"
    /\ \E c \in Ranges(cmds) : IsEdit(c) /\ c.ok

IsFetch(c) == c.prog = "git" /\ c.argv[1] = Lit("fetch")
IsGitPush(c) == c.prog = "git" /\ c.argv[1] = Lit("push")
IsView(c) == c.prog = "gh" /\ c.argv[2] = Lit("view")

\* C11: a push invoked again with no new commit since the previous successful
\* push performs no fetch, no git push and no PR mutation. The branch's PR
\* is number 1 only when an earlier push of this run pushed the branch,
\* created that PR and returned success; the remote branch then holds every
\* commit of the branch, and the running push has neither pushed nor created
\* anything itself.
C11_SecondPushIsNoOp ==
    ( /\ action = "push" /\ invocations >= 2
      /\ prs = <<1>> /\ remoteHead = Len(commits)
      /\ \A c \in Ranges(cmds) : (IsGitPush(c) \/ IsCreate(c)) => ~c.ok )
        => \A c \in Ranges(cmds) : ~IsFetch(c) /\ ~IsGitPush(c) /\ ~IsCreate(c) /\ ~IsEdit(c)

\* C12: in a push, git push runs only after the fetch of main of the same
\* invocation succeeded; a failed fetch ends the push with an error, and the
\* invocation runs no git push, no PR lookup and no generation.
C12_PushOnlyAfterFetch ==
    action = "push" =>
        /\ \A i \in DOMAIN cmds :
              IsGitPush(cmds[i]) => \E j \in 1..(i - 1) : IsFetch(cmds[j]) /\ cmds[j].ok
        /\ (\E c \in Ranges(cmds) : IsFetch(c) /\ ~c.ok) =>
              /\ pc = "done" /\ result = "err" /\ gens = <<>>
              /\ \A c \in Ranges(cmds) : ~IsGitPush(c) /\ ~IsList(c)

C12_Witness ==
    /\ action = "push" /\ pc = "done" /\ result = "err"
    /\ cmds # <<>> /\ IsFetch(cmds[Len(cmds)]) /\ ~cmds[Len(cmds)].ok

\* the options of git push that name the upstream ("--set-upstream=..." is
\* one more spelling of the first)
UpstreamFlags == {Lit("--set-upstream"), Lit("-u")}

UpstreamCount(argv) == Cardinality({i \in DOMAIN argv : argv[i] \in UpstreamFlags})

\* C13: git push sets the upstream by default: when the caller's flags hold
\* no upstream option the command carries --set-upstream, and when they hold
\* one no second upstream option is added.
C13_PushSetsUpstream ==
    \A c \in Ranges(cmds) :
        IsGitPush(c) =>
            UpstreamCount(c.argv) =
                IF UpstreamCount(Lits(extraArgs)) = 0 THEN 1 ELSE UpstreamCount(Lits(extraArgs))

\* the positions of a review between the creation of its temporary file and
\* its return
EditPcs == {"edit_write", "edit_run", "edit_read"}

\* C14: the temporary file of a review exists only while the review runs:
\* whichever way the review returns (approved, empty content, write failure,
\* editor failure, read failure), the file is gone when it has returned.
C14_TempFileRemoved ==
    tmp.exists => pc \in EditPcs

C14_Witness ==
    /\ pc = "done" /\ ~tmp.exists
    /\ \E r \in Ranges(reviews) : r.reached = "editor" /\ r.written # <<>>

\* C15: a review that fails to create or write its file, to run the editor
\* (a non-zero exit included) or to read the file back returns
\* approved = false, and the invocation runs no subprocess that applies
\* generated text.
C15_FailedReviewIsRejected ==
    \A r \in Ranges(reviews) :
        r.reached \in {"create", "write", "editor", "readfail"} =>
            /\ ~r.approved
            /\ \A c \in Ranges(cmds) : ~IsTextMutation(c)

C15_Witness ==
    /\ action = "push" /\ pc = "done" /\ Len(reviews) = 2
    /\ reviews[1].approved /\ reviews[2].reached = "readfail"

\* C16: a generate call issues one request and is never repeated: no
\* instruction is requested twice in an invocation, and a request that
\* fails or returns no completion is the invocation's last one; no editor is
\* started for it (every review belongs to an earlier, successful request)
\* and no subprocess applies generated text.
C16_OneRequestPerGenerate ==
    /\ \A i, j \in DOMAIN gens : gens[i].instr = gens[j].instr => i = j
    /\ \A i \in DOMAIN gens :
          gens[i].outcome # "ok" =>
              /\ i = Len(gens)
              /\ Len(reviews) = i - 1
              /\ pc \notin EditPcs \cup {"edit_create"}
              /\ \A c \in Ranges(cmds) : ~IsTextMutation(c)

C16_Witness ==
    /\ pc = "done" /\ Len(gens) = 2 /\ Len(reviews) = 1
    /\ gens[1].outcome = "ok" /\ gens[2].outcome = "nochoices"

\* C17: an invocation in which a generation failed (error or no completion;
\* commit, stash, PR title, PR body of a new PR, body of an update) ends
\* with an error.
C17_GenerationFailureIsError ==
    (pc = "done" /\ \E g \in Ranges(gens) : g.outcome # "ok") => result = "err"

\* the second PR lookup of a push, the one that follows createNewPR
IsRelookup(i) == IsList(cmds[i]) /\ \E j \in 1..(i - 1) : IsList(cmds[j])

\* C18: in commit, stash and push, a git or gh subprocess that exits
\* non-zero (a diff read, git add, git log, fetch, push, commit, stash push,
\* the first PR lookup, gh pr create, gh pr edit) is the last step of the
\* invocation, which ends with an error; the only exception is the lookup
\* of the new PR's number.
C18_FailedSubprocessStops ==
    \A i \in DOMAIN cmds :
        (~cmds[i].ok /\ ~IsView(cmds[i]) /\ ~IsRelookup(i)) =>
            i = Len(cmds) /\ pc = "done" /\ result = "err"

\* C19: a push that has updated or created a PR ends in success, and its
\* last subprocess is the one request to view the PR whose number the lookup
\* resolved; when the number of a new PR is not resolved (the lookup fails
\* or lists nothing) no view request is made and the push still succeeds.
C19_ViewEndsPush ==
    ( /\ action = "push" /\ pc = "done"
      /\ \E c \in Ranges(cmds) : (IsEdit(c) \/ IsCreate(c)) /\ c.ok )
        => /\ result = "ok"
           /\ IF loc.prNumber # <<>>
              THEN /\ {i \in DOMAIN cmds : IsView(cmds[i])} = {Len(cmds)}
                   /\ cmds[Len(cmds)].argv[3] = Txt(loc.prNumber)
                   /\ loc.prNumber = Itoa(prs[1])
              ELSE \A c \in Ranges(cmds) : ~IsView(c)

C19_Witness ==
    /\ action = "push" /\ pc = "done" /\ result = "ok"
    /\ \E c \in Ranges(cmds) : IsCreate(c) /\ c.ok
    /\ loc.prNumber = <<>> /\ prs = <<1>>

\* C20: commit and stash generate a message only after the changes check
\* of the invocation: the staged and the unstaged diff have both been read
\* first, and one of them is not empty (the working tree is as the check
\* saw it until the commit or the stash push has run).
C20_ChangesCheckFirst ==
    (action \in {"commit", "stash"} /\ gens # <<>>) =>
        /\ Len(cmds) >= 2
        /\ cmds[1] = Ran("git", DiffArgv(TRUE), TRUE)
        /\ cmds[2] = Ran("git", DiffArgv(FALSE), TRUE)
        /\ (\A c \in Ranges(cmds) : ~IsCommit(c) /\ ~IsStash(c)) =>
              HasChanges(runCmd(stagedDiff), runCmd(unstagedDiff))

(* ------------------- the pure functions on their own ------------------- *)

\* the characters of the branch names tried: two upper-case letters, a
\* lower-case letter, the hyphen, two digits and the slash
BranchChars == {"A", "B", "x", "-", "1", "2", "/"}

\* every branch name of at most MaxBranchLen characters, and the two branches
\* of the repository above
BranchNames == UNION {[1..n -> BranchChars] : n \in 0..MaxBranchLen} \cup Branches

\* a process that is about to call detectTicketNumber on some branch name
InitDetect ==
    /\ stagedDiff = <<>>
    /\ unstagedDiff = <<>>
    /\ commits = <<>>
    /\ branch \in BranchNames
    /\ remoteHead = 0
    /\ prs = <<>>
    /\ invocations = 1
    /\ action = "push"
    /\ extraArgs = <<>>
    /\ pc = "detect"
    /\ result = "none"
    /\ loc = [NoLocals EXCEPT !.currentBranch = branch]
    /\ rvRet = "none"
    /\ tmp = NoFile
    /\ cmds = <<>>
    /\ gens = <<>>
    /\ reviews = <<>>

\* ticketNumber := g.detectTicketNumber(currentBranch)
Detect ==
    /\ pc = "detect"
    /\ loc' = [loc EXCEPT !.ticketNumber = detectTicketNumber(loc.currentBranch)]
    /\ pc' = "detected"
    /\ UNCHANGED <<env, inv, result, rvRet, tmp, cmds, gens, reviews>>

\* generated titles: with the sentinel's bracket (and a second line), with a
\* ticket's bracket, with the sentinel's bracket but no space after it,
\* with the bracket not at the start, with no bracket, and empty
TitleTexts ==
    { NoTicketPrefix \o <<"t", "\n", "x">>,
      <<"[", "A", "-", "1", "]", " ", "t">>,
      <<"[">> \o NoTicket \o <<"]", "t">>,
      <<"x", " ">> \o NoTicketPrefix \o <<"t">>,
      <<"m", "\n">>,
      <<>> }

\* createNewPR: firstLine of prTitleAI, less the sentinel's bracket
FirstLineOfTitle ==
    /\ pc = "detected"
    /\ \E t \in TitleTexts :
        loc' = [loc EXCEPT !.aiOutput = t, !.initialContent = TitleLine(t, loc.ticketNumber)]
    /\ pc' = "titled"
    /\ UNCHANGED <<env, inv, result, rvRet, tmp, cmds, gens, reviews>>

NextDetect == Detect \/ FirstLineOfTitle

SpecDetect == InitDetect /\ [][NextDetect]_vars

\* t is one or more upper-case letters, a hyphen, one or more digits
IsTicket(t) ==
    \E k \in 2..(Len(t) - 1) :
        /\ \A i \in 1..(k - 1) : t[i] \in Upper
        /\ t[k] = "-"
        /\ \A i \in (k + 1)..Len(t) : t[i] \in Digit

\* the substrings of b that are tickets, as pairs of first and last position
TicketsIn(b) == {ij \in (1..Len(b)) \X (1..Len(b)) : ij[1] <= ij[2] /\ IsTicket(SubSeq(b, ij[1], ij[2]))}

\* C21: detectTicketNumber returns a substring of the branch name that is a
\* ticket (upper-case letters, hyphen, digits) and starts at the leftmost
\* position where a ticket starts; it returns "NO-TICKET" exactly when the
\* branch name holds no ticket. It always returns.
C21_DetectLeftmostTicket ==
    pc = "detected" =>
        LET b == loc.currentBranch
            r == loc.ticketNumber
        IN  /\ (r = NoTicket) <=> (TicketsIn(b) = {})
            /\ TicketsIn(b) # {} =>
                  \E ij \in TicketsIn(b) :
                      /\ r = SubSeq(b, ij[1], ij[2])
                      /\ \A mn \in TicketsIn(b) : ij[1] <= mn[1]

C21_Witness ==
    /\ pc = "detected"
    /\ loc.currentBranch = <<"A", "B", "-", "1">>
    /\ loc.ticketNumber = <<"A", "B", "-", "1">>

\* a review that the operator left with the text it was given, the text
\* not being blank
LeftUnchanged(r) == r.reached = "read" /\ r.final = r.initial /\ TrimSpace(r.initial) # <<>>

\* the number of reviews the path of the invocation has: title and body for
\* a new PR, one otherwise
ReviewsOfPath == IF gens # <<>> /\ gens[1].instr = "title" THEN 2 ELSE 1

Occurrences(argv, a) == Cardinality({k \in DOMAIN argv : argv[k] = a})

\* the approved texts of the invocation's reviews
ApprovedTexts == {r.final : r \in {q \in Ranges(reviews) : q.approved}}

\* C23: the passthrough flags reach git unmodified, complete and in order:
\* git commit is run as commit, the flags, -m, the approved message; git
\* stash as stash push -m, the approved message, the flags; git push holds
\* the flags in their order, each as often as the operator gave it.
C23_FlagsPassThrough ==
    \A c \in Ranges(cmds) :
        /\ IsCommit(c) =>
              \E t \in ApprovedTexts :
                  c.argv = <<Lit("commit")>> \o Lits(extraArgs) \o <<Lit("-m"), Txt(t)>>
        /\ IsStash(c) =>
              \E t \in ApprovedTexts :
                  c.argv = <<Lit("stash"), Lit("push"), Lit("-m"), Txt(t)>> \o Lits(extraArgs)
        /\ IsGitPush(c) =>
              /\ \E k \in 1..(Len(c.argv) + 1) :
                    SubSeq(c.argv, k, k + Len(extraArgs) - 1) = Lits(extraArgs)
              /\ \A i \in DOMAIN extraArgs :
                    Occurrences(c.argv, Lit(extraArgs[i])) = Occurrences(Lits(extraArgs), Lit(extraArgs[i]))

C23_Witness ==
    /\ Len(extraArgs) = 2 /\ extraArgs[1] # extraArgs[2]
    /\ \E c \in Ranges(cmds) : IsStash(c) /\ c.ok
    /\ pc = "done"

\* the invocation is on the path of createNewPR
OnCreatePath == action = "push" /\ gens # <<>> /\ gens[1].instr = "title"

\* C24: on the path that creates a PR the order is title generation, title
\* review, body generation, body review, gh pr create --draft: the body is
\* requested only after the title review approved, with the title that
\* review returned; gh pr create runs only after both reviews approved,
\* with their two texts; and a rejected review is the last review, with no
\* generation and no gh pr create after it.
C24_CreatePathOrder ==
    /\ \A g \in Ranges(gens) : g.instr = "body" /\ action = "push" /\ Len(gens) = 2 => OnCreatePath
    /\ (\E c \in Ranges(cmds) : IsCreate(c)) => OnCreatePath
    /\ OnCreatePath =>
          /\ Len(gens) <= 2 /\ Len(reviews) <= Len(gens)
          /\ Len(gens) = 2 =>
                /\ gens[2].instr = "body"
                /\ Len(reviews) >= 1 /\ reviews[1].approved
                /\ gens[2].input.prTitle = reviews[1].final
          /\ \A i \in DOMAIN reviews : gens[i].outcome = "ok"
          /\ \A c \in Ranges(cmds) :
                IsCreate(c) =>
                    /\ Len(reviews) = 2 /\ reviews[1].approved /\ reviews[2].approved
                    /\ c.argv = <<Lit("pr"), Lit("create"), Lit("--draft"),
                                  Lit("--title"), Txt(reviews[1].final),
                                  Lit("--body"), Txt(reviews[2].final)>>
          /\ \A i \in DOMAIN reviews :
                ~reviews[i].approved =>
                    /\ i = Len(reviews) /\ i = Len(gens)
                    /\ pc \notin EditPcs \cup {"edit_create", "New_body", "New_create"}
                    /\ \A c \in Ranges(cmds) : ~IsCreate(c)

C24_Witness ==
    /\ OnCreatePath /\ pc = "done" /\ Len(gens) = 2
    /\ gens[2].input.prTitle = <<"e">> /\ gens[1].out # <<"e">>
    /\ \E c \in Ranges(cmds) : IsCreate(c) /\ c.ok

\* the invocation is on the path of updatePRBody
OnUpdatePath == action = "push" /\ gens # <<>> /\ gens[1].instr = "body"

\* C25: on the path that updates a PR there is one generation, of the
\* body, and at most one review; no title is generated; no PR is created;
\* the only PR-host mutation is one `gh pr edit <number> --body <text>`,
\* with the number the first lookup returned and the text the review
\* approved, so the title is not touched; after a rejected review there is
\* no gh pr edit.
C25_UpdatePathFrame ==
    /\ (\E c \in Ranges(cmds) : IsEdit(c)) => OnUpdatePath
    /\ OnUpdatePath =>
          /\ Len(gens) = 1 /\ Len(reviews) <= 1
          /\ loc.prList # <<>> /\ loc.prNumber = FirstNumber(loc.prList)
          /\ \A c \in Ranges(cmds) : ~IsCreate(c)
          /\ Cardinality({i \in DOMAIN cmds : IsEdit(cmds[i])}) <= 1
          /\ \A c \in Ranges(cmds) :
                IsEdit(c) =>
                    /\ Len(reviews) = 1 /\ reviews[1].approved
                    /\ c.argv = <<Lit("pr"), Lit("edit"), Txt(FirstNumber(loc.prList)),
                                  Lit("--body"), Txt(reviews[1].final)>>

C25_Witness ==
    /\ OnUpdatePath /\ pc = "done" /\ result = "ok"
    /\ Len(loc.prList) = 2
    /\ \E c \in Ranges(cmds) : IsEdit(c) /\ c.ok

\* the text up to the first newline
UpToNewline(t) ==
    LET ends == {n \in 1..(Len(t) + 1) : n = Len(t) + 1 \/ t[n] = "\n"}
    IN  SubSeq(t, 1, (CHOOSE n \in ends : \A m \in ends : n <= m) - 1)

\* C26: the text given to the title review is the first line of the
\* generated title; "[NO-TICKET] " is taken off its front exactly when the
\* detected ticket is the sentinel and the line starts with that very
\* prefix; with a real ticket, or with any other start of the line, the
\* first line is passed on unchanged.
C26_TitleFirstLine ==
    pc = "titled" =>
        LET line == UpToNewline(loc.aiOutput)
        IN  IF loc.ticketNumber = NoTicket
               /\ Len(line) >= 12 /\ SubSeq(line, 1, 12) = NoTicketPrefix
            THEN NoTicketPrefix \o loc.initialContent = line
            ELSE loc.initialContent = line

C26_Witness ==
    /\ pc = "titled" /\ loc.ticketNumber = NoTicket
    /\ loc.aiOutput = NoTicketPrefix \o <<"t", "\n", "x">>
    /\ loc.initialContent = <<"t">>

\* C27: a PR lookup that returns more than one PR yields the number of the
\* first element of the list, and that number is the one gh pr edit and gh
\* pr view are given; a lookup that returns an empty list yields the empty
\* "no PR" value with no error, and the push goes on.
C27_FirstOfList ==
    /\ \A l \in PRListings :
          l.outcome = "ok" =>
              /\ getExistingPRNumber(l).ok
              /\ getExistingPRNumber(l).number =
                     IF l.list = <<>> THEN <<>> ELSE Itoa(l.list[1])
    /\ (action = "push" /\ pc = "Push_collect") =>
          /\ result = "none" /\ loc.prList = prs
          /\ prs = <<>> => loc.prNumber = <<>>
    /\ (action = "push" /\ Len(loc.prList) > 1) =>
          /\ loc.prNumber = Itoa(loc.prList[1])
          /\ \A c \in Ranges(cmds) :
                (IsEdit(c) \/ IsView(c)) => c.argv[3] = Txt(Itoa(loc.prList[1]))

C27_Witness ==
    /\ action = "push" /\ pc = "done" /\ loc.prList = <<17, 7>>
    /\ \E c \in Ranges(cmds) : IsEdit(c) /\ c.ok /\ c.argv[3] = Txt(<<"1", "7">>)
    /\ \E c \in Ranges(cmds) : IsView(c) /\ c.argv[3] = Txt(<<"1", "7">>)

\* outputs of git diff to try hasChanges on: nothing, white space only, a
\* diff, a diff within white space
DiffOutputs == {<<>>, <<" ", "\n">>, <<"d">>, <<"\n", "d", "\n">>}

\* the text has a character that is not white space
NonBlank(t) == \E i \in DOMAIN t : t[i] \notin White

\* C28: hasChanges is true exactly when the staged or the unstaged diff
\* has a character that is not white space; when one of the two diff reads
\* of a commit fails, that read is the commit's last step and the commit
\* ends with an error, with no git add, generation, review or git commit;
\* when both succeed the commit ends there exactly when nothing has changed.
C28_HasChanges ==
    /\ pc = "Commit_HasChanges" =>
          \A a, b \in DiffOutputs : HasChanges(a, b) <=> (NonBlank(a) \/ NonBlank(b))
    /\ action = "commit" =>
          /\ \A i \in DOMAIN cmds :
                (i <= 2 /\ ~cmds[i].ok) =>
                    /\ i = Len(cmds) /\ pc = "done" /\ result = "err"
                    /\ gens = <<>> /\ reviews = <<>> /\ ~tmp.exists
          /\ (Len(cmds) = 2 /\ cmds[1].ok /\ cmds[2].ok) =>
                /\ cmds[1].argv = DiffArgv(TRUE) /\ cmds[2].argv = DiffArgv(FALSE)
                /\ (pc = "done") <=> ~(NonBlank(stagedDiff) \/ NonBlank(unstagedDiff))
                /\ pc = "done" => result = "ok"

C28_Witness ==
    /\ action = "commit" /\ pc = "done" /\ result = "err"
    /\ Len(cmds) = 2 /\ cmds[1].ok /\ ~cmds[2].ok
    /\ NonBlank(stagedDiff)

\* C29: an invocation does one thing at a time: while the temporary file of
\* a review exists no subprocess is run and no generation is requested; a
\* temporary file is created only when none exists and every earlier review
\* has returned; and the file goes away with the return of its review.
C29_OneAtATime ==
    [][ /\ tmp.exists => (cmds' = cmds /\ gens' = gens)
        /\ (tmp'.exists /\ ~tmp.exists) =>
              /\ pc = "edit_create" /\ pc' = "edit_write"
              /\ reviews' = reviews /\ cmds' = cmds /\ gens' = gens
              /\ Len(reviews) = Len(gens) - 1
        /\ (tmp.exists /\ ~tmp'.exists) => Len(reviews') = Len(reviews) + 1 ]_vars

C29_Witness ==
    /\ tmp.exists /\ pc = "edit_run" /\ Len(reviews) = 1 /\ Len(gens) = 2

\* the last invocation of a run: the repository and the PR host as an
\* earlier invocation may have left them
InitLast ==
    /\ stagedDiff \in Diffs
    /\ unstagedDiff \in Diffs
    /\ commits \in CommitLists
    /\ branch \in Branches
    /\ remoteHead \in {0, Len(commits)}
    /\ prs \in PRLists \cup {<<1>>}
    /\ invocations = MaxInvocations - 1
    /\ action = "none"
    /\ extraArgs = <<>>
    /\ pc = "idle"
    /\ result = "none"
    /\ loc = NoLocals
    /\ rvRet = "none"
    /\ tmp = NoFile
    /\ cmds = <<>>
    /\ gens = <<>>
    /\ reviews = <<>>

\* one invocation of the binary, from any repository and PR host an earlier
\* invocation may have left: what holds of a single run of main
SpecLast == InitLast /\ [][Next]_vars

\* every external call returns: a step that can be taken is taken
FairSpec == InitLast /\ [][Next]_vars /\ WF_vars(Next)

\* the steps of an invocation in the order of the code; the four steps of
\* a review stand between the steps that lead to a review and the steps
\* that follow one
Steps ==
    <<"Commit_HasChanges", "Commit_stage", "gdm_generate",
      "Push_branch", "Push_hasCommits", "Push_fetch", "Push_branch2", "Push_push",
      "Push_lookup", "Push_collect", "Update_generate", "New_title", "New_afterTitle", "New_body",
      "edit_create", "edit_write", "edit_run", "edit_read",
      "Commit_afterMessage", "Commit_exec", "Stash_afterMessage", "Stash_exec",
      "Update_afterBody", "Update_edit", "New_afterBody", "New_create",
      "Push_relookup", "Push_view", "done">>

Rank(p) == CHOOSE i \in DOMAIN Steps : Steps[i] = p

Running == pc \notin {"idle", "done"}

\* C30: every invocation of commit, stash or push terminates when its
\* external calls return; no step is repeated: each step of a running
\* invocation either completes a review or moves to a later step of the
\* code; and the invocation requests and reviews at most one text, or at
\* most two (title, then body) when it creates a PR.
C30_Terminates ==
    /\ [](Running => <>(pc = "done"))
    /\ [][Running =>
            \/ Len(reviews') = Len(reviews) + 1
            \/ reviews' = reviews /\ Rank(pc') > Rank(pc)]_vars
    /\ [](/\ Len(reviews) <= Len(gens)
          /\ Len(gens) <= IF OnCreatePath THEN 2 ELSE 1
          /\ \A i, j \in DOMAIN gens : gens[i].instr = gens[j].instr => i = j)

C30_Witness ==
    /\ pc = "done" /\ OnCreatePath /\ Len(gens) = 2 /\ Len(reviews) = 2
    /\ \E c \in Ranges(cmds) : IsView(c)

\* a subprocess that contacts the PR host
IsGh(c) == c.prog = "gh"

\* C31: in a push, the PR host is contacted (lookup, gh pr create, gh pr
\* edit, gh pr view) and texts are generated and reviewed only after git
\* push has succeeded in the same invocation; a failed git push ends the
\* push with an error, with the PR host never contacted and nothing
\* generated or reviewed.
C31_PRWorkAfterGitPush ==
    action = "push" =>
        /\ ((\E c \in Ranges(cmds) : IsGh(c)) \/ gens # <<>> \/ reviews # <<>> \/ tmp.exists) =>
              \E i \in DOMAIN cmds :
                  /\ IsGitPush(cmds[i]) /\ cmds[i].ok
                  /\ \A j \in DOMAIN cmds : IsGh(cmds[j]) => i < j
        /\ (\E c \in Ranges(cmds) : IsGitPush(c) /\ ~c.ok) =>
              /\ pc = "done" /\ result = "err"
              /\ gens = <<>> /\ reviews = <<>>
              /\ \A c \in Ranges(cmds) : ~IsGh(c)

C31_Witness ==
    /\ action = "push" /\ pc = "done" /\ result = "err"
    /\ cmds # <<>> /\ IsGitPush(cmds[Len(cmds)]) /\ ~cmds[Len(cmds)].ok
    /\ prs # <<>>

\* the subprocesses a step has added to the log
Added == {cmds'[i] : i \in (Len(cmds) + 1)..Len(cmds')}

\* C32: a commit runs git add . only when the staged diff is empty after
\* trimming; when something is staged, no step before git commit stages
\* anything or changes the index; and the text the message is requested
\* for is the staged diff, nothing else.
C32_StagesOnlyWhenNeeded ==
    [][(action = "commit" /\ Running) =>
          /\ (\E c \in Added : IsAdd(c)) => TrimSpace(stagedDiff) = <<>>
          /\ (TrimSpace(stagedDiff) # <<>> /\ pc # "Commit_exec") =>
                /\ stagedDiff' = stagedDiff
                /\ \A c \in Added : ~IsAdd(c) /\ ~IsUnstage(c)
          /\ gens' # gens =>
                gens'[Len(gens')].input =
                    buildInputData(<<>>, <<>>, <<>>, <<>>, TrimSpace(stagedDiff))]_vars

\* C33: each action runs only its own kind of command: a commit runs no
\* fetch, push, stash or PR-host command; a stash runs no git add, commit,
\* fetch, push or PR-host command; a push runs no git add, commit or
\* stash; and an invocation runs at most one of git commit, git stash push,
\* gh pr create and gh pr edit, at most once.
C33_OwnMutationOnly ==
    /\ action = "commit" =>
          \A c \in Ranges(cmds) : ~IsFetch(c) /\ ~IsGitPush(c) /\ ~IsStash(c) /\ ~IsGh(c)
    /\ action = "stash" =>
          \A c \in Ranges(cmds) :
              ~IsAdd(c) /\ ~IsCommit(c) /\ ~IsFetch(c) /\ ~IsGitPush(c) /\ ~IsGh(c)
    /\ action = "push" =>
          \A c \in Ranges(cmds) : ~IsAdd(c) /\ ~IsCommit(c) /\ ~IsStash(c)
    /\ Cardinality({i \in DOMAIN cmds : IsTextMutation(cmds[i])}) <= 1

C33_Witness ==
    /\ pc = "done" /\ action = "commit"
    /\ \E c \in Ranges(cmds) : IsAdd(c) /\ c.ok
    /\ cmds[Len(cmds)].ok /\ IsCommit(cmds[Len(cmds)])

====
